---- MODULE Spec2Model ----
(***************************************************************************)
(* The Redis job storage of apalis (packages/apalis-redis/src/storage.rs). *)
(* The state is the content of the Redis keys of one namespace, the clock  *)
(* (Utc::now().timestamp()), the configuration of the storage, the jobs a  *)
(* worker's stream has yielded and whose handler has not finished, the     *)
(* position of every storage call that makes more than one store request,  *)
(* and whether the stream and the two heartbeat loops of poll still run.   *)
(* One Redis command or one script invocation is one atomic step.          *)
(***************************************************************************)
EXTENDS Integers, Sequences, FiniteSets, TLC

VARIABLES
    config,      \* Config: max_retries, buffer_size
    now,         \* Utc::now().timestamp()
    nextId,      \* the next TaskId::new()
    data,        \* {queue}:data       hash: job id -> bytes
    active,      \* {queue}:active     list of job ids
    zsets,       \* {queue}:scheduled, :done, :failed, :dead  sorted sets: job id -> score
    inflight,    \* {queue}:inflight[:worker]  sets of job ids
    consumers,   \* {queue}:consumers  sorted set: inflight set name -> score
    held,        \* per worker: the jobs its stream has yielded and whose handler runs
    call,        \* per worker: the storage call in progress between two store requests
    stream,      \* per worker: the stream of stream_jobs: "running", "warned" after
                 \* a round whose fetch returned an error, "ended"
    heartbeat,   \* per worker: the two loops of the heartbeat future of poll, each
                 \* "running", "logged" after an error of its call, or "ended"
    delivered    \* history: how often the stream has yielded each job

vars ==
    <<config, now, nextId, data, active, zsets, inflight, consumers, held, call, stream,
      heartbeat, delivered>>

store == <<data, active, zsets, inflight, consumers>>

(***************************************************************************)
(* Bounds of the model.                                                    *)
(***************************************************************************)
MaxJobs == 3
MaxTime == 1
MaxRetriesCfg == 1
MaxBufferCfg == 2
MaxRetryJobs == 1
MaxPollJobs == 2
MaxQueue == MaxPollJobs
MaxDeliver == MaxRetriesCfg + 1

Workers == {"w1", "w2"}
JobIds == 1..MaxJobs

None == "None"
Nil == <<>>
NoScore == -1

(***************************************************************************)
(* Key names.                                                              *)
(***************************************************************************)
INFLIGHT_JOB_SET == <<"inflight">>
SCHEDULED_JOBS_SET == "scheduled"
DONE_JOBS_SET == "done"
FAILED_JOBS_SET == "failed"
DEAD_JOBS_SET == "dead"

\* format!("{}:{}", self.config.inflight_jobs_set(), worker_id)
inflight_set(worker_id) == INFLIGHT_JOB_SET \o <<worker_id>>

SetKeys == {INFLIGHT_JOB_SET} \cup {inflight_set(w) : w \in Workers}
ZKeys == {SCHEDULED_JOBS_SET, DONE_JOBS_SET, FAILED_JOBS_SET, DEAD_JOBS_SET}

(***************************************************************************)
(* Redis commands, as functions of the value held by a key.                *)
(***************************************************************************)
ZADD(z, key, score, member) == [z EXCEPT ![key][member] = score]
ZREM(z, key, members) ==
    [z EXCEPT ![key] = [m \in DOMAIN @ |-> IF m \in members THEN NoScore ELSE @[m]]]
ZSCORE(z, key, member) == z[key][member]
ZMembers(z, key) == {m \in DOMAIN z[key] : z[key][m] # NoScore}
SREM(s, key, members) == [s EXCEPT ![key] = @ \ members]
SADD(s, key, members) == [s EXCEPT ![key] = @ \cup members]
HSET(h, field, value) == [h EXCEPT ![field] = value]
HGET(h, field) == h[field]
HLEN(h) == Cardinality({f \in DOMAIN h : h[f] # Nil})

(***************************************************************************)
(* RedisJob, Context, Request and the codec.                               *)
(***************************************************************************)
Context(id, attempts) == [id |-> id, attempts |-> attempts]
RedisJob(ctx, job) == [ctx |-> ctx, job |-> job]

NoTaskId == 0
NoAttempt == -1

\* codec.encode(&RedisJob): Ok for a job the codec can serialize
encode_ok(rj) == rj.job # "unencodable"
encode(rj) == <<"ctx", rj.ctx.id, rj.ctx.attempts, "job", rj.job>>

\* codec.decode(bytes): Ok for bytes that are an encoded RedisJob
decode_ok(bytes) == Len(bytes) = 5 /\ bytes[1] = "ctx" /\ bytes[4] = "job"
decode(bytes) == RedisJob(Context(bytes[2], bytes[3]), bytes[5])

\* impl From<RedisJob<T>> for Request<T>: TaskId, Attempt and Context are
\* inserted, a WorkerId is not
FromRedisJob(val) ==
    [job |-> val.job, task_id |-> val.ctx.id, attempt |-> val.ctx.attempts,
     ctx |-> val.ctx, worker_id |-> None]

\* impl TryFrom<Request<T>> for RedisJob<T>: "Missing TaskId" or the job
\* with the request's Attempt (default 0)
try_from_ok(val) == val.task_id # NoTaskId
try_from(val) ==
    RedisJob(Context(val.task_id, IF val.attempt = NoAttempt THEN 0 ELSE val.attempt),
             val.job)

AttemptVals == 0..(MaxRetriesCfg + 1)
Jobs == {"email", "unencodable"}

Idle == [op |-> "idle"]

(***************************************************************************)
(* The Lua scripts (lua/*.lua), each one atomic store request. KEYS and    *)
(* ARGV are the parameters, in the order storage.rs passes them; the       *)
(* signal list only wakes waiters and is left out.                         *)
(***************************************************************************)
\* push_job.lua  KEYS: data hash, active list  ARGV: id, bytes
push_job(id, bytes) ==
    /\ data' = HSET(data, id, bytes)
    /\ active' = Append(active, id)

\* schedule_job.lua  KEYS: data hash, scheduled set  ARGV: id, bytes, on
schedule_job(k_scheduled, id, bytes, on) ==
    /\ data' = HSET(data, id, bytes)
    /\ zsets' = ZADD(zsets, k_scheduled, on, id)

\* ack_job.lua  KEYS: inflight set, done set  ARGV: id, now
ack_job(k_inflight, k_done, id, t) ==
    IF id \in inflight[k_inflight]
    THEN /\ inflight' = SREM(inflight, k_inflight, {id})
         /\ zsets' = ZADD(zsets, k_done, t, id)
    ELSE UNCHANGED <<inflight, zsets>>

\* kill_job.lua  KEYS: inflight set, dead set, data hash  ARGV: id, now, bytes
kill_job(k_inflight, k_dead, id, t, bytes) ==
    IF id \in inflight[k_inflight]
    THEN /\ inflight' = SREM(inflight, k_inflight, {id})
         /\ zsets' = ZADD(zsets, k_dead, t, id)
         /\ data' = HSET(data, id, bytes)
    ELSE UNCHANGED <<inflight, zsets, data>>

\* retry_job.lua  KEYS: inflight set, scheduled set, data hash  ARGV: id, time, bytes
retry_job(k_inflight, k_scheduled, id, t, bytes) ==
    IF id \in inflight[k_inflight]
    THEN /\ inflight' = SREM(inflight, k_inflight, {id})
         /\ zsets' = ZADD(zsets, k_scheduled, t, id)
         /\ data' = HSET(data, id, bytes)
    ELSE UNCHANGED <<inflight, zsets, data>>

\* register_consumer.lua  KEYS: consumers set  ARGV: now, inflight set name
register_consumer(t, k_inflight) ==
    consumers' = [consumers EXCEPT ![k_inflight] = t]

\* The first n elements of a sequence
Take(seq, n) == SubSeq(seq, 1, IF n < Len(seq) THEN n ELSE Len(seq))
Drop(seq, n) == SubSeq(seq, (IF n < Len(seq) THEN n ELSE Len(seq)) + 1, Len(seq))
Range(seq) == {seq[i] : i \in DOMAIN seq}

\* get_jobs.lua  KEYS: consumers, active list, inflight set, data hash
\* ARGV: n, inflight set name.  The ids it moves, in the order of the list.
get_jobs_ids(n) == Take(active, n)

\* "consumer not registered" is an error of the script: nothing is moved
get_jobs_registered(k_inflight) == consumers[k_inflight] # NoScore

get_jobs(k_inflight, n) ==
    IF get_jobs_registered(k_inflight)
    THEN /\ inflight' = SADD(inflight, k_inflight, Range(get_jobs_ids(n)))
         /\ active' = Drop(active, n)
    ELSE UNCHANGED <<inflight, active>>

\* The members of a sorted set with score <= max, lowest score first, then by id
RECURSIVE ZRangeByScore(_, _, _)
ZRangeByScore(z, key, max) ==
    LET elig == {m \in ZMembers(z, key) : z[key][m] <= max}
    IN  IF elig = {} THEN <<>>
        ELSE LET first == CHOOSE m \in elig :
                              \A o \in elig :
                                  \/ z[key][m] < z[key][o]
                                  \/ (z[key][m] = z[key][o] /\ m <= o)
             IN  <<first>> \o ZRangeByScore(ZREM(z, key, {first}), key, max)

\* enqueue_scheduled_jobs.lua  KEYS: scheduled set, active list  ARGV: now, count
enqueue_scheduled_jobs(k_scheduled, t, count) ==
    LET ids == Take(ZRangeByScore(zsets, k_scheduled, t), count)
    IN  /\ active' = active \o ids
        /\ zsets' = ZREM(zsets, k_scheduled, Range(ids))

\* reenqueue_active_jobs.lua  KEYS: inflight set, active list  ARGV: job ids
\* An id is pushed back only when it was removed from the set of KEYS[1].
reenqueue_active_jobs(k_inflight, ids) ==
    LET removed == SelectSeq(ids, LAMBDA j : j \in inflight[k_inflight])
    IN  /\ inflight' = SREM(inflight, k_inflight, Range(removed))
        /\ active' = active \o removed

\* All the orderings of a finite set as sequences
Perms(S) ==
    {f \in [1..Cardinality(S) -> S] : \A i, k \in 1..Cardinality(S) : i # k => f[i] # f[k]}

\* reenqueue_orphaned_jobs.lua  KEYS: consumers set, active list
\* ARGV: dead_since, count.  The consumers last seen before dead_since:
expired_consumers(dead_since) ==
    {k \in DOMAIN consumers : consumers[k] # NoScore /\ consumers[k] < dead_since}

\* at most count of their jobs go back to the active list, and their
\* entries in the consumers set are deleted.
reenqueue_orphaned_jobs(dead_since, moved) ==
    /\ inflight' = [k \in DOMAIN inflight |->
                       IF k \in expired_consumers(dead_since)
                       THEN inflight[k] \ Range(moved) ELSE inflight[k]]
    /\ active' = active \o moved
    /\ consumers' = [k \in DOMAIN consumers |->
                       IF k \in expired_consumers(dead_since) THEN NoScore
                       ELSE consumers[k]]

\* vacuum.lua  KEYS: dead set, data hash
vacuum_script(k_dead) ==
    data' = [id \in DOMAIN data |-> IF id \in ZMembers(zsets, k_dead) THEN Nil ELSE data[id]]

\* the reply of vacuum.lua: the number of records it removes
vacuum_count(k_dead) ==
    Cardinality({id \in ZMembers(zsets, k_dead) : data[id] # Nil})

(***************************************************************************)
(* The initial state: an empty namespace, a storage with some Config.      *)
(***************************************************************************)
Init ==
    /\ config \in [max_retries : 0..MaxRetriesCfg, buffer_size : 1..MaxBufferCfg]
    /\ now = 0
    /\ nextId = 1
    /\ data = [id \in JobIds |-> Nil]
    /\ active = <<>>
    /\ zsets = [k \in ZKeys |-> [id \in JobIds |-> NoScore]]
    /\ inflight = [k \in SetKeys |-> {}]
    /\ consumers = [k \in {inflight_set(w) : w \in Workers} |-> NoScore]
    /\ held = [w \in Workers |-> {}]
    /\ call = [w \in Workers |-> Idle]
    /\ stream = [w \in Workers |-> "running"]
    /\ heartbeat = [w \in Workers |-> [keep_alive |-> "running", enqueue_scheduled |-> "running"]]
    /\ delivered = [id \in JobIds |-> 0]

\* The ids TaskId::new() has handed out
Allocated == 1..(nextId - 1)

(***************************************************************************)
(* Storage: push, schedule, update, vacuum.                                *)
(***************************************************************************)
\* the script invoked without the `?` on the result of the codec
push_unchecked(job) ==
    /\ nextId <= MaxJobs
    /\ Len(active) < MaxQueue
    /\ push_job(nextId, encode(RedisJob(Context(nextId, 0), job)))
    /\ nextId' = nextId + 1
    /\ UNCHANGED <<heartbeat, stream, config, now, zsets, inflight, consumers, call, held, delivered>>

\* RedisStorage::push
push(job) ==
    /\ nextId <= MaxJobs
    /\ Len(active) < MaxQueue
    /\ LET rj == RedisJob(Context(nextId, 0), job)
       IN  IF encode_ok(rj)
           THEN /\ push_job(nextId, encode(rj))
                /\ nextId' = nextId + 1
                /\ UNCHANGED <<heartbeat, stream, config, now, zsets, inflight, consumers, call, held, delivered>>
           ELSE UNCHANGED <<heartbeat, stream, config, now, nextId, data, active, zsets, inflight, consumers, call, held, delivered>>

\* Bytes that are not an encoded RedisJob<T>
Foreign == <<"other">>

\* RedisStorage::push of a storage of another job type on the same
\* namespace: the record does not decode as RedisJob<T>
push_other ==
    /\ nextId <= MaxJobs
    /\ Len(active) < MaxQueue
    /\ push_job(nextId, Foreign)
    /\ nextId' = nextId + 1
    /\ UNCHANGED <<heartbeat, stream, config, now, zsets, inflight, consumers, call, held, delivered>>

\* RedisStorage::schedule
schedule(job, on) ==
    /\ nextId <= MaxJobs
    /\ LET rj == RedisJob(Context(nextId, 0), job)
       IN  IF encode_ok(rj)
           THEN /\ schedule_job(SCHEDULED_JOBS_SET, nextId, encode(rj), on)
                /\ nextId' = nextId + 1
                /\ UNCHANGED <<heartbeat, stream, config, now, active, inflight, consumers, call, held, delivered>>
           ELSE UNCHANGED <<heartbeat, stream, config, now, nextId, data, active, zsets, inflight, consumers, call, held, delivered>>

\* RedisStorage::fetch_by_id: Err("Invalid data returned by storage") when the
\* hash has no such field, Err("Decode error") when the bytes do not decode,
\* Ok(Some(request)) otherwise
fetch_by_id_ok(job_id) == data[job_id] # Nil /\ decode_ok(data[job_id])
fetch_by_id(job_id) == FromRedisJob(decode(HGET(data, job_id)))

\* HMGET of one field: a Value::Bulk of one value, Value::Nil for a field
\* the hash does not have
HMGET(h, field) == <<h[field]>>

\* deserialize_job: the first value of a Bulk when it is Data, None (here
\* Nil) for every other value
deserialize_job(job) == IF job = <<>> THEN Nil ELSE job[1]

\* The result of RedisStorage::fetch_by_id
fetch_by_id_result(job_id) ==
    IF deserialize_job(HMGET(data, job_id)) = Nil
    THEN "Err(Invalid data returned by storage)"
    ELSE IF decode_ok(deserialize_job(HMGET(data, job_id)))
         THEN "Ok(Some)" ELSE "Err(Decode error)"

\* The result of RedisStorage::kill before its script: `fetch_job.await?`
\* hands on the error of fetch_by_id
kill_result(task_id) ==
    IF fetch_by_id_result(task_id) = "Ok(Some)"
    THEN "kill_job" ELSE fetch_by_id_result(task_id)

\* RedisStorage::len: HLEN of the data hash minus ZCOUNT of the done set
ZCOUNT(z, key) == Cardinality(ZMembers(z, key))
len == HLEN(data) - ZCOUNT(zsets, DONE_JOBS_SET)

\* RedisStorage::is_empty: `res == 0` of len
is_empty == (len = 0)

\* RedisStorage::update: HSET of the re-encoded request
update(job) ==
    /\ IF try_from_ok(job) /\ encode_ok(try_from(job))
       THEN data' = HSET(data, try_from(job).ctx.id, encode(try_from(job)))
       ELSE UNCHANGED data
    /\ UNCHANGED <<heartbeat, stream, config, now, nextId, active, zsets, inflight, consumers, call, held, delivered>>

\* RedisStorage::vacuum
\* the script invoked with the done set in the place of the dead set
vacuum_done_key ==
    /\ vacuum_script(DONE_JOBS_SET)
    /\ UNCHANGED <<heartbeat, stream, config, now, nextId, active, zsets, inflight, consumers, call, held, delivered>>

vacuum ==
    /\ vacuum_script(DEAD_JOBS_SET)
    /\ UNCHANGED <<heartbeat, stream, config, now, nextId, active, zsets, inflight, consumers, call, held, delivered>>

(***************************************************************************)
(* Backend::poll: the heartbeat, the promotion of scheduled jobs and the   *)
(* stream of jobs of a worker.                                             *)
(***************************************************************************)
\* RedisStorage::keep_alive
keep_alive(worker_id) ==
    /\ register_consumer(now, inflight_set(worker_id))
    /\ UNCHANGED <<heartbeat, stream, config, now, nextId, data, active, zsets, inflight, call, held, delivered>>

\* the promotion invoked with the dead set in the place of the scheduled set
enqueue_scheduled_dead_key(count) ==
    /\ enqueue_scheduled_jobs(DEAD_JOBS_SET, now, count)
    /\ Len(active') <= MaxQueue
    /\ UNCHANGED <<heartbeat, stream, config, now, nextId, data, inflight, consumers, call, held, delivered>>

\* the promotion invoked with its two arguments in the other order
enqueue_scheduled_swapped(count) ==
    /\ enqueue_scheduled_jobs(SCHEDULED_JOBS_SET, count, now)
    /\ Len(active') <= MaxQueue
    /\ UNCHANGED <<heartbeat, stream, config, now, nextId, data, inflight, consumers, call, held, delivered>>

\* RedisStorage::enqueue_scheduled
enqueue_scheduled(count) ==
    /\ enqueue_scheduled_jobs(SCHEDULED_JOBS_SET, now, count)
    /\ Len(active') <= MaxQueue
    /\ UNCHANGED <<heartbeat, stream, config, now, nextId, data, inflight, consumers, call, held, delivered>>

\* the batch yielded last job first
yield_order_reversed(ids) ==
    LET kept == SelectSeq(ids, LAMBDA id : data[id] # Nil /\ decode_ok(data[id]))
    IN  [i \in DOMAIN kept |-> kept[Len(kept) + 1 - i]]

\* `codec.decode(res)` fails on the record of the id
decode_fails(id) == data[id] # Nil /\ ~decode_ok(data[id])

\* the records of a fetched batch before the first one that does not decode
decoded_prefix(ids) ==
    IF \E i \in DOMAIN ids : decode_fails(ids[i])
    THEN SubSeq(ids, 1, (CHOOSE i \in DOMAIN ids :
                            /\ decode_fails(ids[i])
                            /\ \A k \in 1..(i - 1) : ~decode_fails(ids[k])) - 1)
    ELSE ids

\* `for job in jobs`: the requests of a fetched batch in the order the stream
\* yields them; `transpose()?` leaves the loop at a record that does not
\* decode, and a missing record gives no request
yield_order(ids) == SelectSeq(decoded_prefix(ids), LAMBDA id : data[id] # Nil)

\* try_stream!: the `?` on a decode error yields the error and ends the stream
stream_after(worker_id, buffer_size) ==
    IF /\ get_jobs_registered(inflight_set(worker_id))
       /\ \E id \in Range(get_jobs_ids(buffer_size)) : decode_fails(id)
    THEN "ended" ELSE "running"

\* The ids of a fetched batch whose record the stream decodes and yields
yielded(ids) == Range(yield_order(ids))

\* what a round of stream_jobs yields to the worker
stream_yield(worker_id, buffer_size) ==
    IF get_jobs_registered(inflight_set(worker_id))
    THEN yielded(get_jobs_ids(buffer_size)) ELSE {}

\* a round whose fetch error leaves the stream, as a `?` would
stream_jobs_err_ends(worker_id) ==
    /\ stream[worker_id] # "ended"
    /\ stream' = [stream EXCEPT ![worker_id] = "ended"]
    /\ UNCHANGED <<heartbeat, config, now, nextId, data, active, zsets, inflight, consumers, held, call, delivered>>

\* RedisStorage::stream_jobs: a round whose invoke_async returns Err (the
\* store does not answer): `Err(e) => warn!(..)`, and the loop goes on
stream_jobs_err(worker_id) ==
    /\ stream[worker_id] # "ended"
    /\ stream' = [stream EXCEPT ![worker_id] = "warned"]
    /\ UNCHANGED <<heartbeat, config, now, nextId, data, active, zsets, inflight, consumers, held, call, delivered>>

\* a round that moves the batch and drops the decoded requests
stream_jobs_dropped(worker_id, buffer_size) ==
    /\ stream[worker_id] # "ended"
    /\ get_jobs(inflight_set(worker_id), buffer_size)
    /\ UNCHANGED <<heartbeat, stream, config, now, nextId, data, zsets, consumers, call, held, delivered>>

\* RedisStorage::stream_jobs: one round of the loop, after the sleep
stream_jobs(worker_id, buffer_size) ==
    /\ stream[worker_id] # "ended"
    /\ get_jobs(inflight_set(worker_id), buffer_size)
    /\ held' = [held EXCEPT ![worker_id] = @ \cup stream_yield(worker_id, buffer_size)]
    /\ stream' = [stream EXCEPT ![worker_id] = stream_after(worker_id, buffer_size)]
    /\ UNCHANGED <<heartbeat, config, now, nextId, data, zsets, consumers, call, delivered>>

\* the same round, with the yields of every job counted (up to MaxDeliver)
stream_jobs_counted(worker_id, buffer_size) ==
    /\ stream[worker_id] # "ended"
    /\ get_jobs(inflight_set(worker_id), buffer_size)
    /\ held' = [held EXCEPT ![worker_id] = @ \cup stream_yield(worker_id, buffer_size)]
    /\ delivered' = [id \in JobIds |->
                        IF id \in stream_yield(worker_id, buffer_size)
                           /\ delivered[id] < MaxDeliver
                        THEN delivered[id] + 1 ELSE delivered[id]]
    /\ stream' = [stream EXCEPT ![worker_id] = stream_after(worker_id, buffer_size)]
    /\ UNCHANGED <<heartbeat, config, now, nextId, data, zsets, consumers, call>>

(***************************************************************************)
(* Ack: the acknowledger of the backend, and the completion of a handler.  *)
(***************************************************************************)
\* the two commands of the acknowledgement sent without the script's test
ack_unguarded(worker_id, task_id) ==
    /\ inflight' = SREM(inflight, inflight_set(worker_id), {task_id})
    /\ zsets' = ZADD(zsets, DONE_JOBS_SET, now, task_id)
    /\ UNCHANGED <<heartbeat, stream, config, now, nextId, data, active, consumers>>

\* impl Ack for RedisStorage: ack(worker_id, task_id)
ack(worker_id, task_id) ==
    /\ ack_job(inflight_set(worker_id), DONE_JOBS_SET, task_id, now)
    /\ UNCHANGED <<heartbeat, stream, config, now, nextId, data, active, consumers>>

HandlerResults == {"Ok", "Failed", "Abort"}

\* AckLayer (common_layer): after the handler of a job has returned `result`,
\* the acknowledger of the backend is invoked for the job.
Complete(w, id, result) ==
    /\ id \in held[w]
    /\ IF call[w] = Idle THEN TRUE ELSE call[w].task_id # id
    /\ result \in HandlerResults
    /\ ack(w, id)
    /\ held' = [held EXCEPT ![w] = @ \ {id}]
    /\ UNCHANGED <<call, delivered>>

\* a handler that acknowledges its job itself, before it returns
HandlerAck(w, id) ==
    /\ id \in held[w]
    /\ ack(w, id)
    /\ UNCHANGED <<held, call, delivered>>

\* The handler of a yielded job may start a storage call of several store
\* requests when its worker has none in progress
CanCall(w, id) == id \in held[w] /\ call[w] = Idle

(***************************************************************************)
(* RedisStorage::kill: fetch_by_id, then the kill_job script.              *)
(***************************************************************************)
\* the call after `fetch_job.await?`, `now` taken before it
kill_fetched(task_id) ==
    IF fetch_by_id_ok(task_id)
    THEN [op |-> "kill", pc |-> "kill_job", task_id |-> task_id, now |-> now,
          bytes |-> encode(try_from(fetch_by_id(task_id)))]
    ELSE Idle

kill_start(worker_id, task_id) ==
    /\ CanCall(worker_id, task_id)
    /\ call' = [call EXCEPT ![worker_id] = kill_fetched(task_id)]
    /\ UNCHANGED <<heartbeat, stream, config, now, nextId, data, active, zsets, inflight, consumers, held, delivered>>

\* the script invoked with the failed set in the place of the dead set
kill_invoke_failed_key(worker_id) ==
    /\ call[worker_id].op = "kill"
    /\ LET c == call[worker_id]
       IN  kill_job(inflight_set(worker_id), FAILED_JOBS_SET, c.task_id, c.now, c.bytes)
    /\ call' = [call EXCEPT ![worker_id] = Idle]
    /\ UNCHANGED <<heartbeat, stream, config, now, nextId, active, consumers, held, delivered>>

kill_invoke(worker_id) ==
    /\ call[worker_id].op = "kill"
    /\ LET c == call[worker_id]
       IN  kill_job(inflight_set(worker_id), DEAD_JOBS_SET, c.task_id, c.now, c.bytes)
    /\ call' = [call EXCEPT ![worker_id] = Idle]
    /\ UNCHANGED <<heartbeat, stream, config, now, nextId, active, consumers, held, delivered>>

(***************************************************************************)
(* RedisStorage::retry: fetch_by_id, then either ZADD failed and kill, or  *)
(* the retry_job script.                                                   *)
(***************************************************************************)
\* the comparison one attempt early, and the strict comparison
retry_exhausted_early(job) == job.attempt + 1 >= config.max_retries
retry_exhausted_strict(job) == job.attempt > config.max_retries

\* `attempt.current() >= self.config.max_retries`
retry_exhausted(job) == job.attempt >= config.max_retries

retry_fetched(task_id) ==
    IF ~fetch_by_id_ok(task_id) THEN Idle
    ELSE IF retry_exhausted(fetch_by_id(task_id))
         THEN [op |-> "retry", pc |-> "zadd_failed", task_id |-> task_id, now |-> now,
               attempt |-> fetch_by_id(task_id).attempt]
         ELSE [op |-> "retry", pc |-> "retry_job", task_id |-> task_id, now |-> now,
               attempt |-> fetch_by_id(task_id).attempt,
               bytes |-> encode(try_from(fetch_by_id(task_id)))]

retry_start(worker_id, task_id) ==
    /\ CanCall(worker_id, task_id)
    /\ call' = [call EXCEPT ![worker_id] = retry_fetched(task_id)]
    /\ UNCHANGED <<heartbeat, stream, config, now, nextId, data, active, zsets, inflight, consumers, held, delivered>>

\* a handler that fails and has its job retried: it returns with the call
\* of retry(worker_id, task_id) started
handler_fails(worker_id, task_id) ==
    /\ CanCall(worker_id, task_id)
    /\ call' = [call EXCEPT ![worker_id] = retry_fetched(task_id)]
    /\ held' = [held EXCEPT ![worker_id] = @ \ {task_id}]
    /\ UNCHANGED <<heartbeat, stream, config, now, nextId, data, active, zsets, inflight, consumers, delivered>>

retry_zadd_failed(worker_id) ==
    /\ call[worker_id].op = "retry" /\ call[worker_id].pc = "zadd_failed"
    /\ zsets' = ZADD(zsets, FAILED_JOBS_SET, call[worker_id].now, call[worker_id].task_id)
    /\ call' = [call EXCEPT ![worker_id] =
                   [op |-> "retry", pc |-> "kill", task_id |-> call[worker_id].task_id,
                    attempt |-> call[worker_id].attempt]]
    /\ UNCHANGED <<heartbeat, stream, config, now, nextId, data, active, inflight, consumers, held, delivered>>

\* storage.kill(worker_id, task_id) inside retry: its fetch_by_id
retry_kill(worker_id) ==
    /\ call[worker_id].op = "retry" /\ call[worker_id].pc = "kill"
    /\ call' = [call EXCEPT ![worker_id] = kill_fetched(call[worker_id].task_id)]
    /\ UNCHANGED <<heartbeat, stream, config, now, nextId, data, active, zsets, inflight, consumers, held, delivered>>

retry_invoke(worker_id) ==
    /\ call[worker_id].op = "retry" /\ call[worker_id].pc = "retry_job"
    /\ LET c == call[worker_id]
       IN  retry_job(inflight_set(worker_id), SCHEDULED_JOBS_SET, c.task_id, c.now, c.bytes)
    /\ call' = [call EXCEPT ![worker_id] = Idle]
    /\ UNCHANGED <<heartbeat, stream, config, now, nextId, active, consumers, held, delivered>>

(***************************************************************************)
(* RedisStorage::reschedule: SREM inflight, ZADD failed, schedule_job.     *)
(***************************************************************************)
Waits == 0..1

\* A request for job `id` with the Attempt and the WorkerId its holder has
\* put in it
RequestOf(id, attempt, worker_id) ==
    [job |-> "email", task_id |-> id, attempt |-> attempt,
     ctx |-> Context(id, attempt), worker_id |-> worker_id]

reschedule_start(w, job, wait) ==
    /\ CanCall(w, job.task_id)
    /\ IF job.worker_id = None \/ ~encode_ok(try_from(job))
       THEN /\ call' = [call EXCEPT ![w] = Idle]
            /\ UNCHANGED inflight
       ELSE /\ inflight' = SREM(inflight, inflight_set(job.worker_id), {job.task_id})
            /\ call' = [call EXCEPT ![w] =
                           [op |-> "reschedule", pc |-> "zadd_failed",
                            task_id |-> job.task_id, on |-> now, wait |-> wait,
                            bytes |-> encode(try_from(job))]]
    /\ UNCHANGED <<heartbeat, stream, config, now, nextId, data, active, zsets, consumers, held, delivered>>

reschedule_zadd_failed(w) ==
    /\ call[w].op = "reschedule" /\ call[w].pc = "zadd_failed"
    /\ zsets' = ZADD(zsets, FAILED_JOBS_SET, call[w].on, call[w].task_id)
    /\ call' = [call EXCEPT ![w].pc = "schedule_job"]
    /\ UNCHANGED <<heartbeat, stream, config, now, nextId, data, active, inflight, consumers, held, delivered>>

reschedule_invoke(w) ==
    /\ call[w].op = "reschedule" /\ call[w].pc = "schedule_job"
    /\ LET c == call[w]
       IN  schedule_job(SCHEDULED_JOBS_SET, c.task_id, c.bytes, c.on + c.wait)
    /\ call' = [call EXCEPT ![w] = Idle]
    /\ UNCHANGED <<heartbeat, stream, config, now, nextId, active, inflight, consumers, held, delivered>>

(***************************************************************************)
(* Re-enqueueing, and the clock.                                           *)
(***************************************************************************)
\* RedisStorage::reenqueue_active: KEYS[1] is the inflight key without a worker
reenqueue_active(job_ids) ==
    /\ reenqueue_active_jobs(INFLIGHT_JOB_SET, job_ids)
    /\ Len(active') <= MaxQueue
    /\ UNCHANGED <<heartbeat, stream, config, now, nextId, data, zsets, consumers, call, held, delivered>>

\* the two arguments given to the script in the other order
reenqueue_orphaned_swapped(count, dead_since) ==
    /\ \E S \in SUBSET UNION {inflight[k] : k \in expired_consumers(count)} :
          /\ Cardinality(S) <= dead_since
          /\ \/ Cardinality(S) = dead_since
             \/ S = UNION {inflight[k] : k \in expired_consumers(count)}
          /\ \E moved \in Perms(S) : reenqueue_orphaned_jobs(count, moved)
    /\ Len(active') <= MaxQueue
    /\ UNCHANGED <<heartbeat, stream, config, now, nextId, data, zsets, call, held, delivered>>

\* RedisStorage::reenqueue_orphaned
reenqueue_orphaned(count, dead_since) ==
    /\ \E S \in SUBSET UNION {inflight[k] : k \in expired_consumers(dead_since)} :
          /\ Cardinality(S) <= count
          /\ \/ Cardinality(S) = count
             \/ S = UNION {inflight[k] : k \in expired_consumers(dead_since)}
          /\ \E moved \in Perms(S) : reenqueue_orphaned_jobs(dead_since, moved)
    /\ Len(active') <= MaxQueue
    /\ UNCHANGED <<heartbeat, stream, config, now, nextId, data, zsets, call, held, delivered>>

Tick ==
    /\ now < MaxTime
    /\ now' = now + 1
    /\ UNCHANGED <<heartbeat, stream, config, nextId, data, active, zsets, inflight, consumers, call, held, delivered>>

(***************************************************************************)
(* Specifications. Each one is the storage under the calls of one part of  *)
(* its interface, from the empty namespace.                                *)
(***************************************************************************)
\* Dispatch: producers, the poller of every worker, the acknowledger and the
\* re-enqueueing of orphans.
Next ==
    \/ \E job \in Jobs : nextId <= MaxPollJobs /\ push(job)
    \/ \E w \in Workers : keep_alive(w)
    \/ \E w \in Workers : stream_jobs(w, config.buffer_size)
    \/ \E w \in Workers, id \in Allocated, r \in HandlerResults : Complete(w, id, r)
    \/ \E w \in Workers, id \in Allocated : HandlerAck(w, id)
    \/ \E id \in Allocated : reenqueue_active(<<id>>)
    \/ \E count \in 1..MaxBufferCfg, dead_since \in 0..(MaxTime + 1) :
          reenqueue_orphaned(count, dead_since)
    \/ Tick

Spec == Init /\ [][Next]_vars

\* Retry and kill of one job, with the record updated by other callers.
NextRetry ==
    \/ \E job \in Jobs : nextId <= MaxRetryJobs /\ push(job)
    \/ \E id \in Allocated, a \in AttemptVals : update(RequestOf(id, a, None))
    \/ \E w \in Workers : keep_alive(w)
    \/ enqueue_scheduled(config.buffer_size)
    \/ \E w \in Workers : stream_jobs(w, config.buffer_size)
    \/ \E w \in Workers, id \in Allocated : kill_start(w, id)
    \/ \E w \in Workers : kill_invoke(w)
    \/ \E w \in Workers, id \in Allocated : retry_start(w, id)
    \/ \E w \in Workers : retry_zadd_failed(w)
    \/ \E w \in Workers : retry_kill(w)
    \/ \E w \in Workers : retry_invoke(w)
    \/ Tick

SpecRetry == Init /\ [][NextRetry]_vars

\* One job whose handler fails at every attempt and is retried every time.
NextExhaust ==
    \/ \E job \in Jobs : nextId <= MaxRetryJobs /\ push(job)
    \/ \E w \in Workers : keep_alive(w)
    \/ enqueue_scheduled(config.buffer_size)
    \/ \E w \in Workers : stream_jobs_counted(w, config.buffer_size)
    \/ \E w \in Workers, id \in Allocated : handler_fails(w, id)
    \/ \E w \in Workers : retry_zadd_failed(w)
    \/ \E w \in Workers : retry_kill(w)
    \/ \E w \in Workers : kill_invoke(w)
    \/ \E w \in Workers : retry_invoke(w)
    \/ Tick

SpecExhaust == Init /\ [][NextExhaust]_vars

\* A worker whose process has stopped: none of its tasks runs any more
Stopped == [op |-> "stopped"]

stop(w) ==
    /\ call[w] = Idle
    /\ call' = [call EXCEPT ![w] = Stopped]
    /\ UNCHANGED <<heartbeat, stream, config, now, nextId, data, active, zsets, inflight, consumers, held, delivered>>

\* The age of a heartbeat, in ticks of the clock, from which a worker counts
\* as gone (5 x keep_alive)
OrphanAge == 1

\* The tasks of Backend::poll of every running worker (the heartbeat, the
\* promotion and the stream), the layer that acknowledges, and producers.
NextPoll ==
    \/ \E job \in Jobs : nextId <= MaxPollJobs /\ push(job)
    \/ \E job \in Jobs, on \in 0..(MaxTime + 1) :
          nextId <= MaxPollJobs /\ schedule(job, on)
    \/ \E w \in Workers : call[w] = Idle /\ keep_alive(w)
    \/ \E w \in Workers : call[w] = Idle /\ enqueue_scheduled(config.buffer_size)
    \/ \E w \in Workers : call[w] = Idle /\ stream_jobs(w, config.buffer_size)
    \/ \E w \in Workers, id \in Allocated, r \in HandlerResults :
          call[w] = Idle /\ Complete(w, id, r)
    \/ \E w \in Workers : stop(w)
    \/ Tick

SpecPoll == Init /\ [][NextPoll]_vars

\* The loops of poll of a running worker keep running: the stream sleeps and
\* fetches again, the heartbeat and the promotion sleep and run again.
PollFairness ==
    \A w \in Workers :
        /\ WF_vars(call[w] = Idle /\ keep_alive(w))
        /\ WF_vars(call[w] = Idle /\ enqueue_scheduled(config.buffer_size))
        /\ WF_vars(call[w] = Idle /\ stream_jobs(w, config.buffer_size))

SpecPollFair == SpecPoll /\ PollFairness

\* Scheduled jobs, their promotion and the workers that fetch them.
NextPromote ==
    \/ \E job \in Jobs, on \in 0..(MaxTime + 1) :
          nextId <= MaxPollJobs /\ schedule(job, on)
    \/ enqueue_scheduled(config.buffer_size)
    \/ \E w \in Workers : keep_alive(w)
    \/ \E w \in Workers : stream_jobs(w, config.buffer_size)
    \/ Tick

SpecPromote == Init /\ [][NextPromote]_vars

\* One producer and the workers that fetch and complete its jobs, with no
\* re-enqueueing.
NextFifo ==
    \/ \E job \in Jobs : nextId <= MaxPollJobs /\ push(job)
    \/ \E w \in Workers : keep_alive(w)
    \/ \E w \in Workers : stream_jobs(w, config.buffer_size)
    \/ \E w \in Workers, id \in Allocated, r \in HandlerResults : Complete(w, id, r)
    \/ Tick

SpecFifo == Init /\ [][NextFifo]_vars

\* Ack, retry and kill of one job by the handlers that hold it.
NextExclusive ==
    \/ \E job \in Jobs : nextId <= MaxRetryJobs /\ push(job)
    \/ \E w \in Workers : keep_alive(w)
    \/ enqueue_scheduled(config.buffer_size)
    \/ \E w \in Workers : stream_jobs(w, config.buffer_size)
    \/ \E w \in Workers, id \in Allocated : HandlerAck(w, id)
    \/ \E w \in Workers, id \in Allocated : kill_start(w, id)
    \/ \E w \in Workers : kill_invoke(w)
    \/ \E w \in Workers, id \in Allocated : retry_start(w, id)
    \/ \E w \in Workers : retry_zadd_failed(w)
    \/ \E w \in Workers : retry_kill(w)
    \/ \E w \in Workers : retry_invoke(w)
    \/ Tick

SpecExclusive == Init /\ [][NextExclusive]_vars

\* Ack, retry and kill of one job by the handlers that hold it, with the
\* vacuum.
NextVacuum ==
    \/ NextExclusive
    \/ vacuum

SpecVacuum == Init /\ [][NextVacuum]_vars

\* Ack and kill of the jobs of one producer, with the vacuum, under a fixed
\* clock.
NextSweep ==
    \/ \E job \in Jobs : nextId <= MaxPollJobs /\ push(job)
    \/ \E w \in Workers : keep_alive(w)
    \/ \E w \in Workers : stream_jobs(w, config.buffer_size)
    \/ \E w \in Workers, id \in Allocated : HandlerAck(w, id)
    \/ \E w \in Workers, id \in Allocated : kill_start(w, id)
    \/ \E w \in Workers : kill_invoke(w)
    \/ vacuum

SpecSweep == Init /\ [][NextSweep]_vars

\* Ack, kill and reschedule of one job by the handlers that hold it, with
\* the promotion and the vacuum, under a fixed clock.
NextLen ==
    \/ \E job \in Jobs : nextId <= MaxRetryJobs /\ push(job)
    \/ \E w \in Workers : keep_alive(w)
    \/ enqueue_scheduled(config.buffer_size)
    \/ \E w \in Workers : stream_jobs(w, config.buffer_size)
    \/ \E w \in Workers, id \in Allocated : HandlerAck(w, id)
    \/ \E w \in Workers, id \in Allocated : reschedule_start(w, RequestOf(id, 0, w), 0)
    \/ \E w \in Workers : reschedule_zadd_failed(w)
    \/ \E w \in Workers : reschedule_invoke(w)
    \/ \E w \in Workers, id \in Allocated : kill_start(w, id)
    \/ \E w \in Workers : kill_invoke(w)
    \/ vacuum

SpecLen == Init /\ [][NextLen]_vars

\* The worker runs at most buffer_size handlers at a time: it pulls the
\* stream when fewer are running.
HasCapacity(w) == Cardinality(held[w]) < config.buffer_size

\* One producer and workers that pull the stream when they have capacity
\* and complete their jobs, under a fixed clock.
NextDispatch ==
    \/ \E job \in Jobs : push(job)
    \/ \E w \in Workers : keep_alive(w)
    \/ \E w \in Workers : HasCapacity(w) /\ stream_jobs(w, config.buffer_size)
    \/ \E w \in Workers, id \in Allocated, r \in HandlerResults : Complete(w, id, r)

SpecDispatch == Init /\ [][NextDispatch]_vars

\* Producers of two job types on one namespace, and the workers of one of
\* them, under a fixed clock.
NextCodec ==
    \/ \E job \in Jobs : nextId <= MaxPollJobs /\ push(job)
    \/ nextId <= MaxPollJobs /\ push_other
    \/ \E w \in Workers : keep_alive(w)
    \/ \E w \in Workers : stream_jobs(w, config.buffer_size)
    \/ \E w \in Workers, id \in Allocated, r \in HandlerResults : Complete(w, id, r)

SpecCodec == Init /\ [][NextCodec]_vars

\* One producer and the workers, with a store that sometimes does not
\* answer a fetch, under a fixed clock.
NextOutage ==
    \/ \E job \in Jobs : nextId <= MaxPollJobs /\ push(job)
    \/ \E w \in Workers : keep_alive(w)
    \/ \E w \in Workers : stream_jobs(w, config.buffer_size)
    \/ \E w \in Workers : stream_jobs_err(w)
    \/ \E w \in Workers, id \in Allocated, r \in HandlerResults : Complete(w, id, r)

SpecOutage == Init /\ [][NextOutage]_vars

(***************************************************************************)
(* The heartbeat future of poll: join!(enqueue_scheduled, keep_alive), two *)
(* loops of a call, its error logged, and a sleep.                         *)
(***************************************************************************)
Running(w) == call[w] # Stopped

\* an iteration of the keep_alive loop whose call returns Ok
poll_keep_alive(w) ==
    /\ Running(w) /\ heartbeat[w].keep_alive # "ended"
    /\ keep_alive(w)

\* an error of keep_alive that leaves the loop, as a `?` would
poll_keep_alive_err_ends(w) ==
    /\ Running(w) /\ heartbeat[w].keep_alive # "ended"
    /\ heartbeat' = [heartbeat EXCEPT ![w].keep_alive = "ended"]
    /\ UNCHANGED <<config, now, nextId, data, active, zsets, inflight, consumers, held, call,
                   stream, delivered>>

\* an iteration whose call returns Err (the store does not answer):
\* `error!("Could not call keep_alive ..")`, then the sleep
poll_keep_alive_err(w) ==
    /\ Running(w) /\ heartbeat[w].keep_alive # "ended"
    /\ heartbeat' = [heartbeat EXCEPT ![w].keep_alive = "logged"]
    /\ UNCHANGED <<config, now, nextId, data, active, zsets, inflight, consumers, held, call,
                   stream, delivered>>

\* an iteration of the enqueue_scheduled loop whose call returns Ok
poll_enqueue_scheduled(w) ==
    /\ Running(w) /\ heartbeat[w].enqueue_scheduled # "ended"
    /\ enqueue_scheduled(config.buffer_size)

\* an iteration whose call returns Err: `error!("Could not call
\* enqueue_scheduled: ..")`, then the sleep
poll_enqueue_scheduled_err(w) ==
    /\ Running(w) /\ heartbeat[w].enqueue_scheduled # "ended"
    /\ heartbeat' = [heartbeat EXCEPT ![w].enqueue_scheduled = "logged"]
    /\ UNCHANGED <<config, now, nextId, data, active, zsets, inflight, consumers, held, call,
                   stream, delivered>>

\* Producers and the three tasks of poll of every worker, with a store that
\* sometimes does not answer.
NextHeartbeat ==
    \/ \E job \in Jobs : nextId <= MaxRetryJobs /\ schedule(job, MaxTime)
    \/ \E w \in Workers : poll_keep_alive(w)
    \/ \E w \in Workers : poll_keep_alive_err(w)
    \/ \E w \in Workers : poll_enqueue_scheduled(w)
    \/ \E w \in Workers : poll_enqueue_scheduled_err(w)
    \/ \E w \in Workers : Running(w) /\ stream_jobs(w, config.buffer_size)
    \/ \E w \in Workers : Running(w) /\ stream_jobs_err(w)
    \/ \E w \in Workers : stop(w)
    \/ Tick

SpecHeartbeat == Init /\ [][NextHeartbeat]_vars

\* Reschedule of one job by the handler that holds it, with the reaper and
\* the acknowledger, under a fixed clock.
NextReschedule ==
    \/ \E job \in Jobs : nextId <= MaxRetryJobs /\ push(job)
    \/ \E w \in Workers : keep_alive(w)
    \/ enqueue_scheduled(config.buffer_size)
    \/ \E w \in Workers : stream_jobs(w, config.buffer_size)
    \/ \E w \in Workers, id \in Allocated, r \in HandlerResults : Complete(w, id, r)
    \/ \E w \in Workers, id \in Allocated : HandlerAck(w, id)
    \/ \E w \in Workers, id \in Allocated, wait \in Waits :
          \E wid \in {w, None} : reschedule_start(w, RequestOf(id, 0, wid), wait)
    \/ \E w \in Workers : reschedule_zadd_failed(w)
    \/ \E w \in Workers : reschedule_invoke(w)
    \/ \E count \in 1..MaxBufferCfg, dead_since \in 0..(MaxTime + 1) :
          reenqueue_orphaned(count, dead_since)

SpecReschedule == Init /\ [][NextReschedule]_vars

(***************************************************************************)
(* The collections of the job lifecycle, read from the keys.               *)
(***************************************************************************)
InPending(id) == id \in Range(active)
InScheduled(id) == ZSCORE(zsets, SCHEDULED_JOBS_SET, id) # NoScore
InDone(id) == ZSCORE(zsets, DONE_JOBS_SET, id) # NoScore
InFailed(id) == ZSCORE(zsets, FAILED_JOBS_SET, id) # NoScore
InDead(id) == ZSCORE(zsets, DEAD_JOBS_SET, id) # NoScore
InFlightOf(id) == {w \in Workers : id \in inflight[inflight_set(w)]}

\* The collections that hold an id; failed and dead count as one
PlacesOf(id) ==
    {<<"in_flight", w>> : w \in InFlightOf(id)}
    \cup (IF InPending(id) THEN {<<"pending">>} ELSE {})
    \cup (IF InScheduled(id) THEN {<<"scheduled">>} ELSE {})
    \cup (IF InDone(id) THEN {<<"done">>} ELSE {})
    \cup (IF InFailed(id) \/ InDead(id) THEN {<<"failed_dead">>} ELSE {})

\* No storage call is between two of its store requests
Quiescent == \A w \in Workers : call[w] = Idle

\* The attempts counter in the record of a job
AttemptsOf(id) == decode(data[id]).ctx.attempts

(***************************************************************************)
(* C1. Between operations every job id is in exactly one of pending,       *)
(* scheduled, an in_flight partition, done, failed, dead (failed and dead  *)
(* may share an id).  Stated as claimed; refuted under SpecReschedule,     *)
(* where a completed reschedule leaves the id in failed and in scheduled.  *)
(***************************************************************************)
C1_ExactlyOnePlace ==
    Quiescent => \A id \in Allocated : Cardinality(PlacesOf(id)) = 1

(***************************************************************************)
(* C2. A job id is in at most one in_flight partition, and an id in an     *)
(* in_flight partition is in neither pending nor scheduled.  Stated as     *)
(* claimed; refuted under SpecReschedule, where reschedule schedules an id *)
(* without looking at the partition that holds it.                         *)
(***************************************************************************)
C2_ExclusiveOwnership ==
    \A id \in Allocated :
        /\ Cardinality(InFlightOf(id)) <= 1
        /\ InFlightOf(id) # {} => ~InPending(id) /\ ~InScheduled(id)

(***************************************************************************)
(* C3. The attempts counter in the record of every job is at most          *)
(* max_retries.  Stated as claimed; refuted under SpecRetry, where update  *)
(* stores the Attempt of the request it is given.                          *)
(***************************************************************************)
C3_AttemptsBounded ==
    \A id \in Allocated : AttemptsOf(id) <= config.max_retries

(***************************************************************************)
(* C4. The completion of a handler that returned an error leads to retry   *)
(* or to kill: the job leaves the partition of its worker for scheduled or *)
(* for dead, and its score in done is not written.  Stated as claimed;     *)
(* refuted under Spec, where the acknowledger is given the worker and the  *)
(* task id only and runs ack_job.                                          *)
(***************************************************************************)
C4_ErrorNeverDone ==
    [][\A w \in Workers, id \in JobIds :
          (/\ \E r \in HandlerResults \ {"Ok"} : Complete(w, id, r)
           /\ id \in inflight[inflight_set(w)])
          => /\ ZSCORE(zsets', DONE_JOBS_SET, id) = ZSCORE(zsets, DONE_JOBS_SET, id)
             /\ \/ ZSCORE(zsets', SCHEDULED_JOBS_SET, id) # NoScore
                \/ ZSCORE(zsets', DEAD_JOBS_SET, id) # NoScore]_vars

(***************************************************************************)
(* C5, as amended. A retry that has read the record of its job takes the   *)
(* path of kill (ZADD failed, then kill) exactly when the attempts of the  *)
(* record are greater than or equal to max_retries, and the path of the    *)
(* retry_job script, which schedules the job, in every other case.         *)
(***************************************************************************)
RetryKills(c) == c.pc \in {"zadd_failed", "kill"}

C6_RetryIncrements ==
    [][\A w \in Workers :
          (/\ retry_invoke(w)
           /\ call[w].task_id \in inflight[inflight_set(w)]
           /\ AttemptsOf(call[w].task_id) = call[w].attempt)
          => /\ decode(data'[call[w].task_id]).ctx.attempts = call[w].attempt + 1
             /\ call[w].task_id \notin inflight'[inflight_set(w)]
             /\ ZSCORE(zsets', SCHEDULED_JOBS_SET, call[w].task_id) >= call[w].now]_vars

(***************************************************************************)
(* C7. With max_retries = N >= 1 and a handler that fails at every attempt *)
(* a job is yielded to a handler at most N times.  Stated as claimed;      *)
(* refuted under SpecExhaust, where the job is yielded again after every   *)
(* retry.                                                                  *)
(***************************************************************************)
C7_HandedAtMostN ==
    \A id \in Allocated :
        config.max_retries >= 1 => delivered[id] <= config.max_retries

(***************************************************************************)
(* C8. With max_retries = 0 a retry takes the path of kill: no retry       *)
(* reaches the retry_job script, no job is in scheduled, and a job that a  *)
(* retry has put in failed is not in pending and is in dead as soon as the *)
(* kill of that retry has run.                                             *)
(***************************************************************************)
KillPending(id) ==
    \E w \in Workers :
        /\ call[w].op \in {"retry", "kill"}
        /\ call[w].task_id = id
        /\ id \in inflight[inflight_set(w)]

C8_ZeroRetriesGoesToDead ==
    config.max_retries = 0 =>
        /\ \A w \in Workers : call[w].op = "retry" => RetryKills(call[w])
        /\ \A id \in Allocated :
              /\ ~InScheduled(id)
              /\ InFailed(id) => /\ ~InPending(id)
                                 /\ InDead(id) \/ KillPending(id)

\* the first retry of a job has run to its end with max_retries = 0
C8_Witness ==
    /\ config.max_retries = 0
    /\ Quiescent
    /\ \E id \in Allocated : InFailed(id) /\ InDead(id) /\ InFlightOf(id) = {}

C10_AckIdempotent ==
    [][\A w \in Workers, id \in JobIds :
          (/\ id \notin inflight[inflight_set(w)]
           /\ \/ HandlerAck(w, id)
              \/ \E r \in HandlerResults : Complete(w, id, r))
          => UNCHANGED store]_vars

\* a worker holds a job it has acknowledged: its next ack is a second ack
C10_Witness ==
    \E w \in Workers, id \in Allocated :
        /\ id \in held[w]
        /\ InDone(id)
        /\ id \notin inflight[inflight_set(w)]

(***************************************************************************)
(* C11. Once an ack, a retry or a kill has taken a job out of the          *)
(* partition of its worker, a later store request of an ack, a retry or a  *)
(* kill of that job by the same worker changes no collection.  Stated as   *)
(* claimed; refuted under SpecExclusive, where a retry at the limit sends  *)
(* ZADD failed before the kill_job script tests the partition.             *)
(***************************************************************************)
C11_FirstWins ==
    [][\A w \in Workers, id \in JobIds :
          (/\ id \notin inflight[inflight_set(w)]
           /\ \/ HandlerAck(w, id)
              \/ call[w].op \in {"retry", "kill"}
                 /\ call[w].task_id = id
                 /\ (retry_zadd_failed(w) \/ retry_invoke(w) \/ kill_invoke(w)))
          => UNCHANGED <<active, zsets, inflight>>]_vars

(***************************************************************************)
(* C12, as claimed, for the runs without reenqueue_orphaned (SpecRetry,    *)
(* where held[w] keeps every job the stream of w has yielded): a job that  *)
(* was in the partition of one worker is never in the partition of         *)
(* another.                                                                *)
(***************************************************************************)
C12_NoHandoffWithoutReaper ==
    \A id \in Allocated : \A w, o \in Workers :
        (w # o /\ id \in held[w]) => id \notin inflight[inflight_set(o)]

(***************************************************************************)
(* C12, as amended. A job enters the partition of a worker only by a round *)
(* of the stream of that worker, which takes it from pending; a job enters *)
(* pending only when it is pushed or promoted from scheduled, and a job    *)
(* enters scheduled only by the retry_job request of the worker whose      *)
(* partition holds it.                                                     *)
(***************************************************************************)
C12_HandoffThroughPending ==
    [][\A id \in JobIds :
          /\ \A w \in Workers :
                (id \notin inflight[inflight_set(w)] /\ id \in inflight'[inflight_set(w)])
                => InPending(id) /\ stream_jobs(w, config.buffer_size)
          /\ (~InPending(id) /\ id \in Range(active'))
             => (id = nextId /\ nextId' = nextId + 1) \/ InScheduled(id)
          /\ (~InScheduled(id) /\ ZSCORE(zsets', SCHEDULED_JOBS_SET, id) # NoScore)
             => \E w \in Workers :
                    retry_invoke(w) /\ id \in inflight[inflight_set(w)]]_vars

\* a job that one worker was yielded and retried is in the partition of another
C12_Witness ==
    \E id \in Allocated : \E w, o \in Workers :
        /\ w # o
        /\ id \in held[w] /\ id \in held[o]
        /\ id \in inflight[inflight_set(o)]
        /\ ~InFailed(id) /\ ~InDead(id)

(***************************************************************************)
(* C13. reenqueue_orphaned(count, dead_since) leaves the partition and the *)
(* consumers entry of every worker whose last keep_alive is not older than *)
(* dead_since as they are.                                                 *)
(***************************************************************************)
DeadSinces == 0..(MaxTime + 1)

C13_ReaperSparesLiveWorkers ==
    [][\A count \in 1..MaxBufferCfg, dead_since \in DeadSinces : \A w \in Workers :
          (/\ reenqueue_orphaned(count, dead_since)
           /\ consumers[inflight_set(w)] # NoScore
           /\ consumers[inflight_set(w)] >= dead_since)
          => /\ inflight'[inflight_set(w)] = inflight[inflight_set(w)]
             /\ consumers'[inflight_set(w)] = consumers[inflight_set(w)]]_vars

\* the reaper has taken the job of one worker and deleted its entry, while
\* another worker, registered, still has a job in its partition
C13_Witness ==
    \E w, o \in Workers : \E id \in Allocated :
        /\ w # o
        /\ consumers[inflight_set(w)] = NoScore
        /\ id \in held[w] /\ InPending(id)
        /\ consumers[inflight_set(o)] # NoScore
        /\ inflight[inflight_set(o)] # {}

(***************************************************************************)
(* C14. A job in the partition of a worker that has stopped, whose         *)
(* heartbeat is OrphanAge old or older, can leave that partition: some     *)
(* step of the running system takes it out (back to pending, to be fetched *)
(* and acked by a live worker).  Stated as claimed; refuted under          *)
(* SpecPoll, where no task of poll invokes reenqueue_orphaned.             *)
(***************************************************************************)
C14_OrphanCanReturn ==
    \A w \in Workers : \A id \in Allocated :
        (/\ call[w] = Stopped
         /\ id \in inflight[inflight_set(w)]
         /\ consumers[inflight_set(w)] # NoScore
         /\ now - consumers[inflight_set(w)] >= OrphanAge)
        => ENABLED (NextPoll /\ id \notin inflight'[inflight_set(w)])

(***************************************************************************)
(* C15. A job in pending is eventually yielded by the stream of a worker,  *)
(* unless every worker has stopped; and a round of the stream of a         *)
(* registered worker yields the jobs at the first buffer_size places of    *)
(* pending and moves the others buffer_size places ahead, so the job at    *)
(* place p is yielded within p rounds when no other worker fetches.        *)
(***************************************************************************)
Yielded(id) == \E w \in Workers : id \in held[w]
AllStopped == \A w \in Workers : call[w] = Stopped

C15_PushedIsYielded ==
    /\ \A id \in JobIds : InPending(id) ~> (Yielded(id) \/ AllStopped)
    /\ [][\A w \in Workers :
             (/\ call[w] = Idle
              /\ consumers[inflight_set(w)] # NoScore
              /\ stream_jobs(w, config.buffer_size))
             => /\ \A i \in DOMAIN active :
                      IF i <= config.buffer_size
                      THEN active[i] \in held'[w]
                      ELSE active'[i - config.buffer_size] = active[i]
                /\ Len(active') = Len(Drop(active, config.buffer_size))]_vars

\* a worker has been yielded a job while the batch limit left another pending
C15_Witness ==
    \E w \in Workers : \E id, o \in Allocated :
        /\ id \in held[w] /\ id \in inflight[inflight_set(w)]
        /\ InPending(o)
        /\ id < o

(***************************************************************************)
(* C16. A job that is in scheduled for a time later than now is neither in *)
(* pending nor in a partition, and every id in pending has a record.       *)
(* Stated as claimed; refuted under SpecReschedule, where reschedule puts  *)
(* in scheduled, for now + wait, a job that a partition holds again.       *)
(***************************************************************************)
C16_NotBeforeItsTime ==
    \A id \in Allocated :
        /\ (InScheduled(id) /\ now < ZSCORE(zsets, SCHEDULED_JOBS_SET, id))
           => ~InPending(id) /\ InFlightOf(id) = {}
        /\ InPending(id) => data[id] # Nil

\* The scheduled jobs whose time has been reached, and those of them that
\* the promotion takes before `id` (lower score first, then lower id)
Eligible == {m \in JobIds : InScheduled(m) /\ ZSCORE(zsets, SCHEDULED_JOBS_SET, m) <= now}
AheadOf(id) ==
    {m \in Eligible :
        \/ ZSCORE(zsets, SCHEDULED_JOBS_SET, m) < ZSCORE(zsets, SCHEDULED_JOBS_SET, id)
        \/ /\ ZSCORE(zsets, SCHEDULED_JOBS_SET, m) = ZSCORE(zsets, SCHEDULED_JOBS_SET, id)
           /\ m < id}

(***************************************************************************)
(* C17, as amended. A promotion tick moves to pending the eligible jobs    *)
(* that have fewer than buffer_size eligible jobs ahead of them, oldest    *)
(* eligibility first; the other eligible jobs and the jobs whose time has  *)
(* not come stay in scheduled as they are.                                 *)
(***************************************************************************)
C17_PromotesOldestFirst ==
    [][enqueue_scheduled(config.buffer_size) =>
          \A id \in JobIds :
              IF id \in Eligible /\ Cardinality(AheadOf(id)) < config.buffer_size
              THEN /\ id \in Range(active')
                   /\ ZSCORE(zsets', SCHEDULED_JOBS_SET, id) = NoScore
                   /\ \A m \in AheadOf(id) :
                         \E i, k \in DOMAIN active' :
                             i < k /\ active'[i] = m /\ active'[k] = id
              ELSE ZSCORE(zsets', SCHEDULED_JOBS_SET, id)
                       = ZSCORE(zsets, SCHEDULED_JOBS_SET, id)]_vars

\* C17, as claimed: every eligible job is in pending after the tick
C17_PromotesEveryEligible ==
    [][enqueue_scheduled(config.buffer_size) =>
          \A id \in Eligible : id \in Range(active')]_vars

\* a tick has promoted a job and left a job that is eligible too in scheduled
C17_Witness ==
    \E id, o \in Allocated :
        /\ InPending(id)
        /\ o \in Eligible
        /\ id < o
        /\ config.buffer_size = 1

(***************************************************************************)
(* C18, as amended. Under a fixed clock a second promotion moves the       *)
(* eligible jobs the first one has left, so it changes nothing exactly     *)
(* when none is left: after a promotion that found at most buffer_size     *)
(* eligible jobs no scheduled job is eligible, and a promotion right after *)
(* it leaves pending and scheduled as they are.                            *)
(***************************************************************************)
C18_PromotionIdempotentWithinLimit ==
    [][(/\ enqueue_scheduled(config.buffer_size)
        /\ Cardinality(Eligible) <= config.buffer_size)
       => Eligible' = {}]_vars

\* C18, as claimed: after any promotion a second one has nothing to move
C18_PromotionIdempotent ==
    [][enqueue_scheduled(config.buffer_size) => Eligible' = {}]_vars

\* a promotion has moved every eligible job; a job whose time has not come
\* is still in scheduled
C18_Witness ==
    \E id, o \in Allocated :
        /\ InPending(id)
        /\ Eligible = {}
        /\ InScheduled(o)

(***************************************************************************)
(* C19. With one producer and no re-enqueueing, jobs are handed out in     *)
(* push order (the order of their ids): pending lists them in push order,  *)
(* a job is still in pending while a job pushed before it is, and a round  *)
(* of the stream yields its batch in push order, every job of it pushed    *)
(* before the jobs it leaves in pending.                                   *)
(***************************************************************************)
Increasing(seq) == \A i, k \in DOMAIN seq : i < k => seq[i] < seq[k]

C19_PushOrder ==
    /\ [](/\ Increasing(active)
          /\ \A i, k \in Allocated : (i < k /\ InPending(i)) => InPending(k))
    /\ [][\A w \in Workers :
             (stream_jobs(w, config.buffer_size) /\ get_jobs_registered(inflight_set(w)))
             => LET batch == yield_order(get_jobs_ids(config.buffer_size))
                IN  /\ Increasing(batch)
                    /\ Range(batch) \subseteq held'[w]
                    /\ \A i \in Range(batch), k \in Range(active') : i < k]_vars

\* a worker has been yielded a batch of two jobs
C19_Witness ==
    \E w \in Workers : \E i, k \in Allocated :
        /\ i < k
        /\ {i, k} \subseteq held[w]
        /\ {i, k} \subseteq inflight[inflight_set(w)]
        /\ config.buffer_size >= 2

(***************************************************************************)
(* C20. Every id that is in a collection and not in dead has a record in   *)
(* data; a record is removed only by vacuum, and only when its id is in    *)
(* dead; ack and kill leave the record of their job in data, where         *)
(* fetch_by_id finds it.                                                   *)
(***************************************************************************)
InFlight(id) == \E w \in Workers : id \in inflight[inflight_set(w)]

C20_RecordUnlessDead ==
    /\ [](\A id \in JobIds :
            ((InPending(id) \/ InScheduled(id) \/ InFlight(id) \/ InDone(id) \/ InFailed(id))
                /\ ~InDead(id)) => data[id] # Nil)
    /\ [][\A id \in JobIds :
             (data[id] # Nil /\ data'[id] = Nil) => (vacuum /\ InDead(id))]_vars
    /\ [][\A w \in Workers, id \in Allocated :
             (/\ id \in inflight[inflight_set(w)]
              /\ \/ HandlerAck(w, id)
                 \/ (kill_invoke(w) /\ call[w].task_id = id))
             => fetch_by_id_ok(id)']_vars

\* C20 as stated: every id in pending, scheduled, a partition, done or failed
\* has a record in data.
C20_EveryPlaceHasRecord ==
    \A id \in JobIds :
        (InPending(id) \/ InScheduled(id) \/ InFlight(id) \/ InDone(id) \/ InFailed(id))
            => data[id] # Nil

\* vacuum has removed the record of a killed job
C20_Witness ==
    \E id \in Allocated : InDead(id) /\ data[id] = Nil

(***************************************************************************)
(* C21. vacuum removes from data the record of every id in dead and of no  *)
(* other id, replies with the number of records it removed, and leaves     *)
(* pending, scheduled, the partitions, done, failed and dead as they were; *)
(* no other step removes the record of a dead job.                         *)
(***************************************************************************)
C21_VacuumRemovesDeadOnly ==
    /\ [][vacuum =>
             /\ \A id \in JobIds : InDead(id) => data'[id] = Nil
             /\ \A id \in JobIds : ~InDead(id) => data'[id] = data[id]
             /\ vacuum_count(DEAD_JOBS_SET)
                  = Cardinality({id \in JobIds : data[id] # Nil /\ data'[id] = Nil})
             /\ UNCHANGED <<active, zsets, inflight>>]_vars
    /\ [][\A id \in JobIds :
             (InDead(id) /\ data[id] # Nil /\ data'[id] = Nil) => vacuum]_vars

\* vacuum has removed the record of a dead job and kept that of a done job
C21_Witness ==
    \E i, k \in Allocated :
        /\ InDead(i) /\ data[i] = Nil
        /\ InDone(k) /\ ~InDead(k) /\ data[k] # Nil

(***************************************************************************)
(* C22. Once every pushed job has been fetched and acked (each id is in    *)
(* done), with every partition empty and no storage call in progress,      *)
(* len() is 0 and is_empty() is true.                                      *)
(***************************************************************************)
AllAcked == Allocated # {} /\ \A id \in Allocated : InDone(id)

Created(id) ==
    /\ id \notin Allocated /\ data[id] = Nil /\ PlacesOf(id) = {}
    /\ decode_ok(data'[id])
    /\ decode(data'[id]).ctx = Context(id, 0)
    /\ \A o \in JobIds \ {id} : data'[o] = data[o] /\ PlacesOf(o)' = PlacesOf(o)

C23_CreateOrNothing ==
    /\ [][\A job \in Jobs, id \in JobIds :
             (push(job) /\ id = nextId) =>
                 IF encode_ok(RedisJob(Context(id, 0), job))
                 THEN /\ Created(id)
                      /\ PlacesOf(id)' = {<<"pending">>}
                      /\ active' = Append(active, id)
                 ELSE UNCHANGED store]_vars
    /\ [][\A job \in Jobs, on \in 0..(MaxTime + 1), id \in JobIds :
             (schedule(job, on) /\ id = nextId) =>
                 IF encode_ok(RedisJob(Context(id, 0), job))
                 THEN /\ Created(id)
                      /\ PlacesOf(id)' = {<<"scheduled">>}
                      /\ ZSCORE(zsets', SCHEDULED_JOBS_SET, id) = on
                 ELSE UNCHANGED store]_vars

\* a pushed job is in pending only and a scheduled one in scheduled only,
\* both with attempts = 0
C23_Witness ==
    \E i, k \in Allocated :
        /\ PlacesOf(i) = {<<"pending">>} /\ AttemptsOf(i) = 0
        /\ PlacesOf(k) = {<<"scheduled">>} /\ AttemptsOf(k) = 0

(***************************************************************************)
(* C24. The partition of a worker never holds more than buffer_size ids.   *)
(***************************************************************************)
C24_PartitionWithinBuffer ==
    \A w \in Workers : Cardinality(inflight[inflight_set(w)]) <= config.buffer_size

C26_NoHalfMove ==
    \A id \in Allocated :
        /\ PlacesOf(id) # {}
        /\ (InDone(id) \/ InFailed(id) \/ InDead(id)) => InFlightOf(id) = {}

(***************************************************************************)
(* C27. A round of the stream whose batch has a record that does not       *)
(* decode leaves the stream running, moves that record's id to dead and    *)
(* yields every other record of the batch.                                 *)
(***************************************************************************)
C27_DecodeFailureQuarantined ==
    [][\A w \in Workers :
          (stream_jobs(w, config.buffer_size) /\ get_jobs_registered(inflight_set(w)))
          => /\ stream'[w] = "running"
             /\ \A id \in Range(get_jobs_ids(config.buffer_size)) :
                   IF decode_fails(id) THEN InDead(id)' ELSE id \in held'[w]]_vars

(***************************************************************************)
(* C28. A round whose fetch returns a store error yields nothing, changes  *)
(* nothing in the store and leaves the stream running; the next round the  *)
(* store answers yields the head of pending; a round on an empty pending   *)
(* yields nothing and is no error; the stream never ends.                  *)
(***************************************************************************)
C28_FetchErrorContinues ==
    /\ [](\A w \in Workers : stream[w] # "ended")
    /\ [][\A w \in Workers :
             stream_jobs_err(w) => UNCHANGED <<store, held>>]_vars
    /\ [][\A w \in Workers :
             (/\ stream[w] = "warned"
              /\ stream_jobs(w, config.buffer_size)
              /\ get_jobs_registered(inflight_set(w)))
             => /\ Range(get_jobs_ids(config.buffer_size)) \subseteq held'[w]
                /\ stream'[w] = "running"]_vars
    /\ [][\A w \in Workers :
             (stream_jobs(w, config.buffer_size) /\ active = <<>>)
             => (UNCHANGED <<store, held>> /\ stream'[w] = "running")]_vars

\* a fetch of a registered worker has failed while a job is pending
C28_Witness ==
    \E w \in Workers :
        /\ stream[w] = "warned"
        /\ get_jobs_registered(inflight_set(w))
        /\ active # <<>>

(***************************************************************************)
(* C29. The keep_alive loop and the enqueue_scheduled loop of a worker     *)
(* never end: an error of the call changes nothing in the store, leaves    *)
(* the other loop and the stream as they were, and while the worker runs   *)
(* the next keep_alive, the next enqueue_scheduled and the next fetch of   *)
(* the stream can always be made.                                          *)
(***************************************************************************)
C29_LoopsSurviveErrors ==
    /\ [](\A w \in Workers :
            /\ heartbeat[w].keep_alive # "ended"
            /\ heartbeat[w].enqueue_scheduled # "ended"
            /\ stream[w] # "ended"
            /\ Running(w) => /\ ENABLED poll_keep_alive(w)
                              /\ ENABLED poll_enqueue_scheduled(w)
                              /\ ENABLED stream_jobs(w, config.buffer_size))
    /\ [][\A w \in Workers :
             poll_keep_alive_err(w)
             => /\ UNCHANGED <<store, stream>>
                /\ heartbeat'[w].enqueue_scheduled = heartbeat[w].enqueue_scheduled]_vars
    /\ [][\A w \in Workers :
             poll_enqueue_scheduled_err(w)
             => /\ UNCHANGED <<store, stream>>
                /\ heartbeat'[w].keep_alive = heartbeat[w].keep_alive]_vars

\* after a logged error of each loop, the heartbeat of the worker is fresh
\* and its stream has been handed a promoted job
C29_Witness ==
    \E w \in Workers :
        /\ heartbeat[w].keep_alive = "logged"
        /\ heartbeat[w].enqueue_scheduled = "logged"
        /\ now = MaxTime
        /\ consumers[inflight_set(w)] = now
        /\ held[w] # {}

(***************************************************************************)
(* C30. When the record of a job has been written by another caller since  *)
(* retry or kill read it, the write of retry or kill does not put the      *)
(* content it had read back over it.                                       *)
(***************************************************************************)
C30_NoStaleWriteBack ==
    [][\A w \in Workers :
          ((kill_invoke(w) \/ retry_invoke(w))
              /\ data[call[w].task_id] # call[w].bytes)
          => data'[call[w].task_id] # call[w].bytes]_vars

(***************************************************************************)
(* C31. Every id in done has a record in data, and len() is never          *)
(* negative.                                                               *)
(***************************************************************************)
C31_LenNeverNegative ==
    /\ \A id \in JobIds : InDone(id) => data[id] # Nil
    /\ len >= 0

(***************************************************************************)
(* C32. fetch_by_id of an id that has no record in data returns Ok(None),  *)
(* and kill of such an id fails with "Id not found".                       *)
(***************************************************************************)
C32_MissingRecordIsNone ==
    \A id \in JobIds :
        data[id] = Nil => /\ fetch_by_id_result(id) = "Ok(None)"
                          /\ kill_result(id) = "Err(Id not found)"

====
